---- MODULE Spec2Model ----
(***************************************************************************)
(* A model of the CoverPics poster downloader (src/src): the filename      *)
(* sanitizer of utils/helpers.py, the match resolver and the download      *)
(* orchestrator of core/downloader.py, and the search parsing of           *)
(* core/api_client.py.                                                     *)
(*                                                                         *)
(* Strings are sequences of characters; a character is a one-character     *)
(* string, or the name "U+XXXX" of a code point outside ASCII.             *)
(***************************************************************************)
EXTENDS Integers, Sequences, FiniteSets, TLC

(***************************************************************************)
(* Bounds of the model.                                                    *)
(***************************************************************************)
\* Longest input string given to sanitize_filename, and largest max_length.
MaxLen == 3

\* Largest configured max_retries.
MaxRetries == 2

\* Number of titles given to download_from_list.
MaxTitles == 2

\* Longest configured list of backup languages.
MaxBackup == 2

\* Last tick of the clock, and largest configured delay in ticks.
MaxTime == 4

MaxDelay == 2

\* Number of worker threads the GUI may start.
MaxWorkers == 2

(***************************************************************************)
(* utils/helpers.py: sanitize_filename                                     *)
(***************************************************************************)
\* A value that is not a str (None, a number, ...).
NonString == <<"<not a str>">>

\* The characters the inputs are drawn from: one of each class the
\* function's steps tell apart.
InputChars ==
    { "a", "_", "-", " ", "/", "!", "U+00E9", "U+4E2D", "U+00A0" }

\* [a-zA-Z0-9]: the letters that occur in inputs, in the decomposition of
\* U+00E9, and in "untitled".
AlnumChars == { "a", "e", "u", "n", "t", "i", "l", "d" }

\* The characters of the class [<>:"/\\|?*] of step 3.
IllegalChars == { "<", ">", ":", "\"", "/", "\\", "|", "?", "*" }

\* The characters \s matches after step 2 (ASCII only).
AsciiWhitespace == { " " }

\* The characters str.strip() removes: the Unicode whitespace.
UnicodeWhitespace == { " ", "U+00A0" }

\* The characters of the whitelist [a-zA-Z0-9_\-] of step 5.
SafeChars == AlnumChars \cup { "_", "-" }

\* The code points below 128.
AsciiChars == SafeChars \cup IllegalChars \cup AsciiWhitespace \cup { "!" }

\* The literal "untitled".
Untitled == << "u", "n", "t", "i", "t", "l", "e", "d" >>

\* max(a, b) and min(a, b)
Max(a, b) == IF a >= b THEN a ELSE b

Min(a, b) == IF a <= b THEN a ELSE b

\* unicodedata.normalize('NFKD', c) of one character: e-acute decomposes
\* into e and the combining acute accent, the no-break space into a space.
NFKD(c) ==
    CASE c = "U+00E9" -> << "e", "U+0301" >>
      [] c = "U+00A0" -> << " " >>
      [] OTHER        -> << c >>

RECURSIVE Normalize(_)
\* unicodedata.normalize('NFKD', s)
Normalize(s) ==
    IF s = << >> THEN << >> ELSE NFKD(Head(s)) \o Normalize(Tail(s))

\* .encode('ascii', 'ignore').decode('ascii')
EncodeAsciiIgnore(s) ==
    LET IsAscii(c) == c \in AsciiChars IN SelectSeq(s, IsAscii)

\* re.sub(r'[<>:"/\\|?*]', '_', s)
ReplaceIllegal(s) ==
    [i \in DOMAIN s |-> IF s[i] \in IllegalChars THEN "_" ELSE s[i]]

RECURSIVE CollapseWhitespace(_)
\* re.sub(r'\s+', '_', s): every maximal run of whitespace becomes one "_".
CollapseWhitespace(s) ==
    IF s = << >> THEN << >>
    ELSE IF Head(s) \in AsciiWhitespace
         THEN IF Len(s) > 1 /\ s[2] \in AsciiWhitespace
              THEN CollapseWhitespace(Tail(s))
              ELSE << "_" >> \o CollapseWhitespace(Tail(s))
         ELSE << Head(s) >> \o CollapseWhitespace(Tail(s))

\* A plausible fault: the whitelist step is left out.
RemoveInvalidKeepsAll(s) == s

\* re.sub(r'[^a-zA-Z0-9_\-]', '', s)
RemoveInvalid(s) ==
    LET IsSafe(c) == c \in SafeChars IN SelectSeq(s, IsSafe)

RECURSIVE CollapseUnderscores(_)
\* re.sub(r'__+', '_', s): every maximal run of underscores becomes one "_".
CollapseUnderscores(s) ==
    IF s = << >> THEN << >>
    ELSE IF Head(s) = "_" /\ Len(s) > 1 /\ s[2] = "_"
         THEN CollapseUnderscores(Tail(s))
         ELSE << Head(s) >> \o CollapseUnderscores(Tail(s))

RECURSIVE LStrip(_, _)
\* s.lstrip(chars)
LStrip(s, chars) ==
    IF s # << >> /\ Head(s) \in chars THEN LStrip(Tail(s), chars) ELSE s

RECURSIVE RStrip(_, _)
\* s.rstrip(chars)
RStrip(s, chars) ==
    IF s # << >> /\ s[Len(s)] \in chars
    THEN RStrip(SubSeq(s, 1, Len(s) - 1), chars)
    ELSE s

\* s.strip(chars)
Strip(s, chars) == RStrip(LStrip(s, chars), chars)

\* s[:n], Python's slice: a negative n counts from the end.
Truncate(s, n) ==
    IF n >= 0 THEN SubSeq(s, 1, Min(n, Len(s)))
    ELSE SubSeq(s, 1, Max(Len(s) + n, 0))

\* sanitize_filename(filename, max_length)
sanitize_filename(filename, max_length) ==
    IF filename = NonString \/ Strip(filename, UnicodeWhitespace) = << >>
    THEN Untitled
    ELSE LET step2 == EncodeAsciiIgnore(Normalize(filename))
             step3 == ReplaceIllegal(step2)
             step4 == CollapseWhitespace(step3)
             step5 == RemoveInvalid(step4)
             step6 == CollapseUnderscores(step5)
             step7 == Strip(step6, { "_", "-" })
             step8 == Truncate(step7, max_length)
         IN  IF step8 = << >> THEN Untitled ELSE step8

(***************************************************************************)
(* models/data_models.py and core/api_client.py: search_media              *)
(***************************************************************************)
\* MediaType: the values of the enum.
MediaType == { "tv", "movie" }

\* A poster_path that is None (or missing from the item).
NoPoster == "None"

\* The items a search response may hold.  has_id: the key 'id' is present;
\* popularity_parses: float(item.get('popularity', 0.0)) does not raise.
ItemLow ==
    [ has_id |-> TRUE, id |-> 1, popularity |-> 1,
      popularity_parses |-> TRUE, poster_path |-> "/low.jpg" ]

ItemMid ==
    [ has_id |-> TRUE, id |-> 2, popularity |-> 2,
      popularity_parses |-> TRUE, poster_path |-> "/mid.jpg" ]

ItemTopNoPoster ==
    [ has_id |-> TRUE, id |-> 3, popularity |-> 3,
      popularity_parses |-> TRUE, poster_path |-> NoPoster ]

ItemNoId ==
    [ has_id |-> FALSE, id |-> 0, popularity |-> 4,
      popularity_parses |-> TRUE, poster_path |-> "/noid.jpg" ]

ItemBadPopularity ==
    [ has_id |-> TRUE, id |-> 5, popularity |-> 0,
      popularity_parses |-> FALSE, poster_path |-> "/bad.jpg" ]

\* What _make_request returns: ok = FALSE is None (the request failed),
\* otherwise the JSON with its 'results'.
RespFailed == [ ok |-> FALSE, results |-> << >> ]

RespNoResults == [ ok |-> TRUE, results |-> << >> ]

RespMalformed == [ ok |-> TRUE, results |-> << ItemNoId, ItemBadPopularity >> ]

RespLow == [ ok |-> TRUE, results |-> << ItemLow >> ]

RespUnsorted == [ ok |-> TRUE, results |-> << ItemLow, ItemMid >> ]

RespTopNoPoster ==
    [ ok |-> TRUE, results |-> << ItemNoId, ItemLow, ItemTopNoPoster >> ]

\* The answers the mock API may give to one search.
Responses ==
    { RespFailed, RespNoResults, RespMalformed,
      RespLow, RespUnsorted, RespTopNoPoster }

\* MediaInfo(...) of one item (the fields the downloader reads).
ToMediaInfo(item, media_type, language) ==
    [ id |-> item.id, poster_path |-> item.poster_path,
      popularity |-> item.popularity,
      media_type |-> media_type, language |-> language ]

RECURSIVE ParseResults(_, _, _)
\* The loop over response_data['results']: an item without 'id', or whose
\* numbers do not parse, is left out.
ParseResults(items, media_type, language) ==
    IF items = << >> THEN << >>
    ELSE LET item == Head(items)
             rest == ParseResults(Tail(items), media_type, language)
         IN  IF item.has_id /\ item.popularity_parses
             THEN << ToMediaInfo(item, media_type, language) >> \o rest
             ELSE rest

RECURSIVE InsertByPopularity(_, _)
\* x put into the list l, sorted by popularity descending, after the
\* entries of equal popularity.
InsertByPopularity(x, l) ==
    IF l = << >> THEN << x >>
    ELSE IF Head(l).popularity >= x.popularity
         THEN << Head(l) >> \o InsertByPopularity(x, Tail(l))
         ELSE << x >> \o l

\* A plausible fault: the parsed results are returned in the API's order.
SortByPopularityUnsorted(l) == l

RECURSIVE SortByPopularity(_)
\* sorted(l, key=lambda x: x.popularity, reverse=True): stable.
SortByPopularity(l) ==
    IF l = << >> THEN << >>
    ELSE LET n == Len(l)
         IN  InsertByPopularity(l[n], SortByPopularity(SubSeq(l, 1, n - 1)))

\* search_media(title, media_type, language), given the response of the
\* request it makes.
search_media(response, media_type, language) ==
    IF ~response.ok \/ response.results = << >>
    THEN << >>
    ELSE SortByPopularity(ParseResults(response.results, media_type, language))

\* get_poster_url(poster_path): None (here << >>) without a poster path.
get_poster_url(poster_path) ==
    IF poster_path \in { NoPoster, "" } THEN << >> ELSE << poster_path >>

\* The outcomes of session.get and raise_for_status: a 2xx response whose
\* body is JSON or is not, a timeout, a connection error, a 4xx/5xx
\* response whose body is a JSON object, a JSON array or no JSON at all,
\* and any other RequestException.
HttpOutcomes ==
    { "ok_json", "ok_not_json", "timeout", "connection_error",
      "http_error_json_object", "http_error_json_array",
      "http_error_not_json", "other_request_error" }

\* None, returned by _make_request.
ReturnsNone == [ raised |-> FALSE, value |-> RespFailed ]

\* An exception leaves _make_request.
Raises == [ raised |-> TRUE, value |-> RespFailed ]

\* The try statement of _make_request: the ways it can end for an outcome
\* of the HTTP call.  response.json() of a 2xx body that is not JSON raises
\* a RequestException (caught) or a plain ValueError (not caught),
\* depending on the version of requests.  In the HTTPError handler
\* err.response.json().get(...) raises, out of the handler, when the body
\* is not JSON or is JSON without a get method.
make_request(outcome, body) ==
    CASE outcome = "ok_json" -> { [ raised |-> FALSE, value |-> body ] }
      [] outcome = "ok_not_json" -> { ReturnsNone, Raises }
      [] outcome = "http_error_json_object" -> { ReturnsNone }
      [] outcome \in { "http_error_json_array", "http_error_not_json" } ->
            { Raises }
      [] OTHER -> { ReturnsNone }

(***************************************************************************)
(* State.                                                                  *)
(***************************************************************************)
VARIABLES
    \* --- DownloadConfig (data_models.py) ---
    config,       \* media_types, backup_languages, max_retries,
                  \* overwrite_existing, save_metadata, zip_output
    \* --- UniversalPosterDownloader.download_from_list ---
    pc,           \* position of the run: "idle", "begin", "resolve", "get",
                  \* "sleep", "next", "summary", "report", "zip", "done";
                  \* "aborted" when an exception has ended it
    idx,          \* index in titles of the title being processed
    stats,        \* DownloadStats
    \* --- the file system ---
    files,        \* poster file name -> "absent", "old", "partial", "complete"
    metaFiles,    \* poster file name -> TRUE when its sidecar was written
    reportFile,   \* failed_downloads.txt: << >> when absent, else <<titles>>
    zipFile,      \* the archive: << >> when absent, else <<set of names>>
    \* --- download_single_poster, the call in progress ---
    attempt,      \* the loop variable of the retry loop
    gets,         \* image GET requests made by this call
    sleeps,       \* backoff waits made by this call
    searches,     \* API searches made by this call
    before,       \* stats and files when the call began
    result,       \* DownloadResult: success and what decided it
    \* --- _find_best_match, the call in progress ---
    rpc,          \* "idle", "primary", "backup", "returned", "raised"
    mtIdx,        \* index in config.media_types
    langIdx,      \* index in config.backup_languages
    primaryApi,   \* the mock API's answer per media type, primary language
    searchLog,    \* the searches issued: media_type, language, results
    match,        \* the value returned: << >> for None, else <<MediaInfo>>
    raised,       \* an exception left _find_best_match
    \* --- sanitize_filename applied to bounded inputs ---
    sPc,          \* "idle", "input", "once", "twice"
    sIn,          \* the filename argument
    sMax,         \* the max_length argument
    sOut,         \* sanitize_filename(sIn, sMax)
    sOut2,        \* sanitize_filename(sOut, sMax)
    \* --- TMDBApiClient: the rate limiter, with a clock ---
    now,                \* time.monotonic(), in ticks
    delay,              \* config.delay, in ticks
    last_request_time,  \* self._last_request_time
    lPc,          \* position in search_media and _make_request: "idle",
                  \* "limit", "sleep", "stamp", "send", "wait", "returned"
    wake,         \* the time before which time.sleep does not return
    prevSent,     \* when the request before the last was sent: << >>, <<t>>
    lastSent,     \* when the last request was sent: << >>, <<t>>
    reply,        \* the outcome of the HTTP call, and the JSON it carried
    returned,     \* how _make_request ended: raised, or the value returned
    found,        \* how search_media ended: raised, or the list returned
    \* --- main(): the configuration layers and the startup ---
    defaultFile,  \* config/default_config.json: Missing, or << dict >>
    userFile,     \* config/user_config.json: Missing, or << dict >>
    envKey,       \* os.getenv("TMDB_API_KEY"): Unset or a string
    args,         \* the parsed command line: setting -> Unset or a string
    dirWritable,  \* the output directory can be created and written
    mConfig,      \* main's config: setting -> string
    mPc,          \* "idle", "start", "loaded", "valid", "exited"
    exitStatus,   \* << >> while running, else <<status>>
    downloaderBuilt,  \* UniversalPosterDownloader(config) was called
    \* --- PosterDownloaderGUI: the download controls and workers ---
    is_downloading,   \* self.is_downloading
    download_button,  \* state of the button: "normal", "disabled"
    stop_button,      \* state of the button: "normal", "disabled"
    workers,      \* thread -> "none", titles processed so far, "ended"
    afterQueue,   \* download_finished calls posted with root.after
    \* --- ConfigManager.load_from_file applied to file contents ---
    cfgFile,      \* the file at config_path: its kind and its JSON value
    loaded        \* how load_from_file ended: raised, or the config returned

cfgVars == << config >>

runVars == << pc, idx, stats >>

fsVars == << files, metaFiles, reportFile, zipFile >>

callVars == << attempt, gets, sleeps, searches, before, result >>

resVars == << rpc, mtIdx, langIdx, primaryApi, searchLog, match, raised >>

sanVars == << sPc, sIn, sMax, sOut, sOut2 >>

\* The request in progress of the client.
reqVars == << reply, returned, found >>

limVars ==
    << now, delay, last_request_time, lPc, wake, prevSent, lastSent,
       reqVars >>

mainVars ==
    << defaultFile, userFile, envKey, args, dirWritable, mConfig, mPc,
       exitStatus, downloaderBuilt >>

guiVars ==
    << is_downloading, download_button, stop_button, workers, afterQueue >>

loadVars == << cfgFile, loaded >>

\* The variables outside the downloader core and the sanitizer.
appVars == << limVars, mainVars, guiVars, loadVars >>

vars == << cfgVars, runVars, fsVars, callVars, resVars, sanVars, appVars >>

(***************************************************************************)
(* The parts around the core, at rest: no request of the API client is in  *)
(* progress, main() is not running, no GUI download was started.           *)
(***************************************************************************)
\* A configuration file that does not exist; a file that exists is
\* << dict >>, its JSON object.
Missing == << >>

\* None: an environment variable or a command-line option that is not set.
Unset == << "<None>" >>

\* The settings of DownloadConfig followed through main().
Settings == { "api_key", "language" }

\* No HTTP call was made, nothing was returned or raised.
NoReply == [ outcome |-> "none", body |-> RespFailed ]

NoReturn == [ raised |-> FALSE, value |-> RespFailed ]

NoneFound == [ raised |-> FALSE, list |-> << >> ]

RequestIdle ==
    /\ reply = NoReply
    /\ returned = NoReturn
    /\ found = NoneFound

\* The TMDBApiClient is constructed and no request is in progress.
LimiterIdle ==
    /\ RequestIdle
    /\ now = 0
    /\ delay = 0
    /\ last_request_time = 0
    /\ lPc = "idle"
    /\ wake = 0
    /\ prevSent = << >>
    /\ lastSent = << >>

\* main() is not in progress.
MainIdle ==
    /\ defaultFile = Missing
    /\ userFile = Missing
    /\ envKey = Unset
    /\ args = [s \in Settings |-> Unset]
    /\ dirWritable = TRUE
    /\ mConfig = << >>
    /\ mPc = "idle"
    /\ exitStatus = << >>
    /\ downloaderBuilt = FALSE

\* No GUI is running.
GuiIdle ==
    /\ is_downloading = FALSE
    /\ download_button = "normal"
    /\ stop_button = "disabled"
    /\ workers = << >>
    /\ afterQueue = 0

\* load_from_file was not called.
NotLoaded == [ state |-> "none", exception |-> "", config |-> << >> ]

LoadIdle ==
    /\ cfgFile = [ kind |-> "none", data |-> << >> ]
    /\ loaded = NotLoaded

AppIdle == LimiterIdle /\ MainIdle /\ GuiIdle /\ LoadIdle

(***************************************************************************)
(* Configurations and inputs.                                              *)
(***************************************************************************)
\* sanitize_filename's default max_length.
DefaultMaxLength == 200

\* DownloadConfig.language, the primary language.
PrimaryLanguage == "en-US"

\* The languages backup_languages is made of (the default list).
BackupLanguagePool == { "en", "ja", "es" }

\* The values of config.backup_languages: the lists without repetition.
BackupLanguageLists ==
    { l \in UNION { [1..n -> BackupLanguagePool] : n \in 0..MaxBackup } :
        \A i, j \in DOMAIN l : i # j => l[i] # l[j] }

\* The values of config.media_types.
MediaTypeLists ==
    { << "tv", "movie" >>, << "movie", "tv" >>, << "tv" >>, << "movie" >> }

\* The titles a run may be given; the second gets the first one's file name.
TitlePool ==
    << << "a" >>, << "a", "/" >>, << "U+00E9" >>, << "!", "a", " ", "a" >> >>

\* The argument of download_from_list.
Titles == SubSeq(TitlePool, 1, Min(MaxTitles, Len(TitlePool)))

\* The poster file of a title, named by its stem: f"{safe_filename}.jpg".
PosterFile(title) == sanitize_filename(title, DefaultMaxLength)

FileNames == { PosterFile(Titles[i]) : i \in DOMAIN Titles }

\* DownloadStats(total=n)
NewStats(n) ==
    [ total |-> n, successful |-> 0, failed |-> 0, skipped |-> 0,
      failed_titles |-> << >> ]

\* No DownloadResult yet.
NoResult == [ success |-> FALSE, how |-> "none" ]

(***************************************************************************)
(* core/downloader.py: _find_best_match                                    *)
(***************************************************************************)
\* A plausible fault: the last entry of the list is taken.
BestOfLast(results) == results[Len(results)]

\* best_result = results[0]
BestOf(results) == results[1]

\* A plausible fault: a NotFoundError is raised instead of returning None.
NotFoundRaises == [ match |-> << >>, raised |-> TRUE ]

\* return None, after the error is logged
NotFound == [ match |-> << >>, raised |-> FALSE ]

\* A plausible fault: the loops are nested the other way round.
NextBackupLanguageFirst(li, mi) ==
    IF li < Len(config.backup_languages) THEN << li + 1, mi >>
    ELSE IF mi < Len(config.media_types) THEN << 1, mi + 1 >>
    ELSE << 0, 0 >>

\* The nested loops over backup_languages and media_types: the position
\* after << li, mi >>, or << 0, 0 >> when both loops are over.
NextBackup(li, mi) ==
    IF mi < Len(config.media_types) THEN << li, mi + 1 >>
    ELSE IF li < Len(config.backup_languages) THEN << li + 1, 1 >>
    ELSE << 0, 0 >>

\* One entry of the log of searches.
LogEntry(media_type, language, results) ==
    [ media_type |-> media_type, language |-> language, results |-> results ]

\* return best_result
ReturnMatch(results) ==
    /\ match' = << BestOf(results) >>
    /\ raised' = FALSE
    /\ rpc' = "returned"
    /\ UNCHANGED << mtIdx, langIdx >>

\* No search gave a result.
ReturnNotFound ==
    /\ match' = NotFound.match
    /\ raised' = NotFound.raised
    /\ rpc' = "returned"
    /\ UNCHANGED << mtIdx, langIdx >>

\* One turn of the loop over the media types in the primary language.
SearchPrimary ==
    /\ pc = "resolve"
    /\ rpc = "primary"
    /\ LET mt == config.media_types[mtIdx]
           results == search_media(primaryApi[mt], mt, PrimaryLanguage)
       IN  /\ searchLog' = Append(searchLog, LogEntry(mt, PrimaryLanguage, results))
           /\ IF results # << >> THEN ReturnMatch(results)
              ELSE IF mtIdx < Len(config.media_types)
                   THEN /\ mtIdx' = mtIdx + 1
                        /\ UNCHANGED << rpc, langIdx, match, raised >>
              ELSE IF config.backup_languages # << >>
                   THEN /\ rpc' = "backup"
                        /\ langIdx' = 1
                        /\ mtIdx' = 1
                        /\ UNCHANGED << match, raised >>
              ELSE ReturnNotFound
    /\ searches' = searches + 1
    /\ UNCHANGED << primaryApi, attempt, gets, sleeps, before, result >>
    /\ UNCHANGED << cfgVars, runVars, fsVars, sanVars, appVars >>

\* One turn of the loops over the backup languages and the media types;
\* the API's answer is drawn when the search is made.
SearchBackup ==
    /\ pc = "resolve"
    /\ rpc = "backup"
    /\ \E response \in Responses :
        LET mt == config.media_types[mtIdx]
            lang == config.backup_languages[langIdx]
            results == search_media(response, mt, lang)
            nxt == NextBackup(langIdx, mtIdx)
        IN  /\ searchLog' = Append(searchLog, LogEntry(mt, lang, results))
            /\ IF results # << >> THEN ReturnMatch(results)
               ELSE IF nxt # << 0, 0 >>
                    THEN /\ langIdx' = nxt[1]
                         /\ mtIdx' = nxt[2]
                         /\ UNCHANGED << rpc, match, raised >>
               ELSE ReturnNotFound
    /\ searches' = searches + 1
    /\ UNCHANGED << primaryApi, attempt, gets, sleeps, before, result >>
    /\ UNCHANGED << cfgVars, runVars, fsVars, sanVars, appVars >>

\* A search whose request ends in an exception that _make_request does not
\* catch (a 4xx/5xx answer without a JSON body): nothing between
\* search_media and the caller of download_from_list handles it, so it ends
\* _find_best_match, download_single_poster and download_from_list.
SearchRaises ==
    /\ pc = "resolve"
    /\ rpc \in { "primary", "backup" }
    /\ Raises \in UNION { make_request(outcome, RespFailed) :
                            outcome \in HttpOutcomes }
    /\ searches' = searches + 1
    /\ raised' = TRUE
    /\ rpc' = "raised"
    /\ pc' = "aborted"
    /\ UNCHANGED << mtIdx, langIdx, primaryApi, searchLog, match >>
    /\ UNCHANGED << attempt, gets, sleeps, before, result >>
    /\ UNCHANGED << cfgVars, idx, stats, fsVars, sanVars, appVars >>

(***************************************************************************)
(* core/downloader.py: download_single_poster and download_from_list       *)
(***************************************************************************)
\* The title being processed.
Title == Titles[idx]

\* A plausible fault: the failure is counted and its title is not kept.
RecordFailureNoAppend(st, title) == [ st EXCEPT !.failed = @ + 1 ]

\* self.stats.failed += 1; self.stats.failed_titles.append(title)
RecordFailure(st, title) ==
    [ st EXCEPT !.failed = @ + 1, !.failed_titles = Append(@, title) ]

\* The outcomes of requests.get(..., stream=True) and the streaming write:
\* success, a RequestException before the file is opened (connection,
\* timeout, HTTP status), or one raised by iter_content after the file was
\* opened for writing.  (Any other exception, such as an OSError of open(),
\* is not caught by the loop and is not among the outcomes drawn.)
GetOutcomes == { "ok", "error", "error_mid_stream" }

\* A plausible fault: the existence check looks in the metadata directory.
ShouldSkipChecksMetadata ==
    ~config.overwrite_existing /\ metaFiles[PosterFile(Title)]

\* not self.config.overwrite_existing and poster_filepath.exists()
ShouldSkip ==
    ~config.overwrite_existing /\ files[PosterFile(Title)] # "absent"

\* not media_info or not media_info.poster_path
NoSuitableMatch ==
    match = << >> \/ match[1].poster_path \in { NoPoster, "" }

\* The sanitizer is not running.
SanIdle ==
    /\ sPc = "idle"
    /\ sIn = << >>
    /\ sMax = 0
    /\ sOut = << >>
    /\ sOut2 = << >>

\* No call of _find_best_match is in progress.
ResolverIdle ==
    /\ rpc = "idle"
    /\ mtIdx = 1
    /\ langIdx = 1
    /\ primaryApi = [mt \in MediaType |-> RespFailed]
    /\ searchLog = << >>
    /\ match = << >>
    /\ raised = FALSE

\* A plausible fault: only the total is set, the counters are kept.
ResetStatsKeepsCounters == [stats EXCEPT !.total = Len(Titles)]

\* DownloadStats(total=len(titles))
ResetStats == NewStats(Len(Titles))

\* self.stats = DownloadStats(total=len(titles)), and the first title.
StartRun ==
    /\ pc = "idle"
    /\ stats' = ResetStats
    /\ idx' = 1
    /\ pc' = "begin"
    /\ UNCHANGED << cfgVars, fsVars, callVars, resVars, sanVars, appVars >>

\* download_from_list called again on a downloader whose earlier call has
\* returned.
StartRunAgain ==
    /\ pc = "done"
    /\ stats' = ResetStats
    /\ idx' = 1
    /\ pc' = "begin"
    /\ UNCHANGED << cfgVars, fsVars, callVars, resVars, sanVars, appVars >>

\* download_single_poster up to the call of _find_best_match: the file name,
\* the check for an existing poster, and the skip.  The answers of the mock
\* API in the primary language are fixed here, for this title.
BeginTitle ==
    /\ pc = "begin"
    /\ attempt' = 0
    /\ gets' = 0
    /\ sleeps' = 0
    /\ searches' = 0
    /\ before' = [ stats |-> stats, files |-> files ]
    /\ IF ShouldSkip
       THEN /\ stats' = [stats EXCEPT !.skipped = @ + 1]
            /\ result' = [ success |-> TRUE, how |-> "skipped" ]
            /\ pc' = "next"
            /\ UNCHANGED resVars
       ELSE /\ primaryApi' \in [MediaType -> Responses]
            /\ rpc' = "primary"
            /\ mtIdx' = 1
            /\ langIdx' = 1
            /\ searchLog' = << >>
            /\ match' = << >>
            /\ raised' = FALSE
            /\ result' = NoResult
            /\ pc' = "resolve"
            /\ UNCHANGED stats
    /\ UNCHANGED << cfgVars, idx, fsVars, sanVars, appVars >>

\* A plausible fault: the return after recording the failure is missing,
\* and the call goes on into the retry loop.
AfterMatchNoReturn ==
    /\ pc = "resolve"
    /\ rpc = "returned"
    /\ ~raised
    /\ stats' = IF NoSuitableMatch THEN RecordFailure(stats, Title) ELSE stats
    /\ attempt' = 1
    /\ pc' = "get"
    /\ rpc' = "idle"
    /\ mtIdx' = 1
    /\ langIdx' = 1
    /\ primaryApi' = [mt \in MediaType |-> RespFailed]
    /\ searchLog' = << >>
    /\ UNCHANGED << match, raised, result >>
    /\ UNCHANGED << gets, sleeps, searches, before >>
    /\ UNCHANGED << cfgVars, idx, fsVars, sanVars, appVars >>

\* download_single_poster from the return of _find_best_match to the head
\* of the retry loop: no match or no poster fails the title at once; with
\* max_retries < 1 the loop body never runs and the call ends at the
\* return after the loop.
AfterMatch ==
    /\ pc = "resolve"
    /\ rpc = "returned"
    /\ ~raised
    /\ IF NoSuitableMatch
       THEN /\ stats' = RecordFailure(stats, Title)
            /\ result' = [ success |-> FALSE, how |-> "no_match" ]
            /\ pc' = "next"
            /\ UNCHANGED attempt
       ELSE IF get_poster_url(match[1].poster_path) = << >>
       THEN /\ stats' = RecordFailure(stats, Title)
            /\ result' = [ success |-> FALSE, how |-> "no_url" ]
            /\ pc' = "next"
            /\ UNCHANGED attempt
       ELSE IF config.max_retries >= 1
       THEN /\ attempt' = 1
            /\ pc' = "get"
            /\ UNCHANGED << stats, result >>
       ELSE /\ result' = [ success |-> FALSE, how |-> "fell_through" ]
            /\ pc' = "next"
            /\ UNCHANGED << stats, attempt >>
    /\ rpc' = "idle"
    /\ mtIdx' = 1
    /\ langIdx' = 1
    /\ primaryApi' = [mt \in MediaType |-> RespFailed]
    /\ searchLog' = << >>
    /\ UNCHANGED << match, raised >>
    /\ UNCHANGED << gets, sleeps, searches, before >>
    /\ UNCHANGED << cfgVars, idx, fsVars, sanVars, appVars >>

\* A plausible fault: the loop runs one turn too many.
LastAttemptOffByOne == attempt >= config.max_retries + 1

\* not (attempt < self.config.max_retries)
LastAttempt == attempt >= config.max_retries

\* A plausible fault: every failed attempt is recorded as a failed title.
AttemptFailedRecordsEach ==
    /\ stats' = RecordFailure(stats, Title)
    /\ IF ~LastAttempt
       THEN /\ pc' = "sleep"
            /\ UNCHANGED result
       ELSE /\ result' = [ success |-> FALSE, how |-> "exhausted" ]
            /\ pc' = "next"

\* The except branch: wait and go round again, or record the failure.
AttemptFailed ==
    IF ~LastAttempt
    THEN /\ pc' = "sleep"
         /\ UNCHANGED << stats, result >>
    ELSE /\ stats' = RecordFailure(stats, Title)
         /\ result' = [ success |-> FALSE, how |-> "exhausted" ]
         /\ pc' = "next"

\* A plausible fault: the sidecar is written whatever save_metadata says.
SaveMetadataAlways ==
    \E written \in BOOLEAN :
        metaFiles' = [metaFiles EXCEPT ![PosterFile(Title)] = @ \/ written]

\* if self.config.save_metadata: self._save_metadata(...).  The sidecar is
\* written, or an IOError is caught and logged and nothing is written.
SaveMetadata ==
    IF config.save_metadata
    THEN \E written \in BOOLEAN :
            metaFiles' = [metaFiles EXCEPT ![PosterFile(Title)] = @ \/ written]
    ELSE UNCHANGED metaFiles

\* One turn of the retry loop: the GET, the streaming write, the sidecar.
Attempt ==
    /\ pc = "get"
    /\ gets' = gets + 1
    /\ \E outcome \in GetOutcomes :
        CASE outcome = "ok" ->
                /\ files' = [files EXCEPT ![PosterFile(Title)] = "complete"]
                /\ SaveMetadata
                /\ stats' = [stats EXCEPT !.successful = @ + 1]
                /\ result' = [ success |-> TRUE, how |-> "downloaded" ]
                /\ pc' = "next"
          [] outcome = "error" ->
                /\ AttemptFailed
                /\ UNCHANGED << files, metaFiles >>
          [] outcome = "error_mid_stream" ->
                /\ AttemptFailed
                /\ files' = [files EXCEPT ![PosterFile(Title)] = "partial"]
                /\ UNCHANGED metaFiles
    /\ UNCHANGED << attempt, sleeps, searches, before >>
    /\ UNCHANGED << cfgVars, idx, reportFile, zipFile, resVars, sanVars,
                    appVars >>

\* A plausible fault: the loop goes round again without waiting.
BackoffNoWait ==
    /\ pc = "sleep"
    /\ attempt' = attempt + 1
    /\ pc' = "get"
    /\ UNCHANGED << sleeps, gets, searches, before, result >>
    /\ UNCHANGED << cfgVars, idx, stats, fsVars, resVars, sanVars, appVars >>

\* time.sleep(1), and the next turn of the loop.
Backoff ==
    /\ pc = "sleep"
    /\ sleeps' = sleeps + 1
    /\ attempt' = attempt + 1
    /\ pc' = "get"
    /\ UNCHANGED << gets, searches, before, result >>
    /\ UNCHANGED << cfgVars, idx, stats, fsVars, resVars, sanVars, appVars >>

\* The loop of download_from_list: the result is dropped, the next title
\* is taken, or the loop ends.
NextTitle ==
    /\ pc = "next"
    /\ IF idx < Len(Titles)
       THEN /\ idx' = idx + 1
            /\ pc' = "begin"
       ELSE /\ pc' = "summary"
            /\ UNCHANGED idx
    /\ attempt' = 0
    /\ gets' = 0
    /\ sleeps' = 0
    /\ searches' = 0
    /\ before' = [ stats |-> stats, files |-> files ]
    /\ result' = NoResult
    /\ match' = << >>
    /\ UNCHANGED << rpc, mtIdx, langIdx, primaryApi, searchLog, raised >>
    /\ UNCHANGED << cfgVars, stats, fsVars, sanVars, appVars >>

\* self._print_summary()
PrintSummary ==
    /\ pc = "summary"
    /\ pc' = "report"
    /\ UNCHANGED << cfgVars, idx, stats, fsVars, callVars, resVars, sanVars,
                    appVars >>

\* A plausible fault: the report is written for an empty list too.
save_failed_titles_always(failed_titles, report) == << failed_titles >>

\* FileHandler.save_failed_titles: the content of failed_downloads.txt
\* after the call, given its content before.  Nothing is written for an
\* empty list; otherwise the file is opened with 'w' and one line per entry
\* of the list is written, in the order of the list.
save_failed_titles(failed_titles, report) ==
    IF failed_titles = << >> THEN report ELSE << failed_titles >>

\* A plausible fault: the archive is made whatever zip_output says.
AfterReportAlwaysZip == "zip"

\* if self.config.zip_output: self._create_zip_archive()
AfterReport == IF config.zip_output THEN "zip" ELSE "done"

\* self.file_handler.save_failed_titles(self.stats.failed_titles, ...)
SaveFailedTitles ==
    /\ pc = "report"
    /\ reportFile' = save_failed_titles(stats.failed_titles, reportFile)
    /\ pc' = AfterReport
    /\ UNCHANGED << files, metaFiles, zipFile >>
    /\ UNCHANGED << cfgVars, idx, stats, callVars, resVars, sanVars, appVars >>

\* self._create_zip_archive(): every *.jpg of the output directory goes
\* into the archive; no archive when there is none.
CreateZipArchive ==
    /\ pc = "zip"
    /\ LET poster_files == { f \in FileNames : files[f] # "absent" }
       IN  zipFile' = IF poster_files = { } THEN zipFile
                      ELSE << poster_files >>
    /\ pc' = "done"
    /\ UNCHANGED << files, metaFiles, reportFile >>
    /\ UNCHANGED << cfgVars, idx, stats, callVars, resVars, sanVars, appVars >>

(***************************************************************************)
(* The run of the downloader over Titles.                                  *)
(***************************************************************************)
\* The configurations of a run: the default media types, two backup
\* languages, and every value of the other settings.
RunConfigs ==
    [ media_types : { << "tv", "movie" >> },
      backup_languages : { << "en", "ja" >> },
      max_retries : 0..MaxRetries,
      overwrite_existing : BOOLEAN,
      save_metadata : BOOLEAN,
      zip_output : BOOLEAN ]

\* UniversalPosterDownloader(config), in an output directory that may hold
\* posters of an earlier run.
Init ==
    /\ config \in RunConfigs
    /\ pc = "idle"
    /\ idx = 1
    /\ stats = NewStats(0)
    /\ files \in [FileNames -> { "absent", "old" }]
    /\ metaFiles = [f \in FileNames |-> FALSE]
    /\ reportFile = << >>
    /\ zipFile = << >>
    /\ attempt = 0
    /\ gets = 0
    /\ sleeps = 0
    /\ searches = 0
    /\ before = [ stats |-> stats, files |-> files ]
    /\ result = NoResult
    /\ ResolverIdle
    /\ SanIdle
    /\ AppIdle

Next ==
    \/ StartRun
    \/ BeginTitle
    \/ SearchPrimary
    \/ SearchBackup
    \/ SearchRaises
    \/ AfterMatch
    \/ Attempt
    \/ Backoff
    \/ NextTitle
    \/ PrintSummary
    \/ SaveFailedTitles
    \/ CreateZipArchive

Spec == Init /\ [][Next]_vars

\* The same downloader object used for one call of download_from_list
\* after another.
NextReuse == Next \/ StartRunAgain

SpecReuse == Init /\ [][NextReuse]_vars

(***************************************************************************)
(* _find_best_match alone: one call, for every configuration of media      *)
(* types and backup languages and every answer of the mock API.            *)
(***************************************************************************)
\* The default max_retries.
DefaultMaxRetries == 3

ResolverConfigs ==
    [ media_types : MediaTypeLists,
      backup_languages : BackupLanguageLists,
      max_retries : { DefaultMaxRetries },
      overwrite_existing : { FALSE },
      save_metadata : { TRUE },
      zip_output : { TRUE } ]

\* download_single_poster has just called _find_best_match(title).
ResolverInit ==
    /\ config \in ResolverConfigs
    /\ pc = "resolve"
    /\ idx = 1
    /\ stats = NewStats(Len(Titles))
    /\ files = [f \in FileNames |-> "absent"]
    /\ metaFiles = [f \in FileNames |-> FALSE]
    /\ reportFile = << >>
    /\ zipFile = << >>
    /\ attempt = 0
    /\ gets = 0
    /\ sleeps = 0
    /\ searches = 0
    /\ before = [ stats |-> stats, files |-> files ]
    /\ result = NoResult
    /\ rpc = "primary"
    /\ mtIdx = 1
    /\ langIdx = 1
    /\ primaryApi \in [MediaType -> Responses]
    /\ searchLog = << >>
    /\ match = << >>
    /\ raised = FALSE
    /\ SanIdle
    /\ AppIdle

ResolverNext == SearchPrimary \/ SearchBackup \/ SearchRaises

SpecResolver == ResolverInit /\ [][ResolverNext]_vars

(***************************************************************************)
(* Claims about _find_best_match (under SpecResolver).                     *)
(***************************************************************************)
\* The result list of the i-th configured media type, primary language.
PrimaryResults(i) ==
    search_media(primaryApi[config.media_types[i]], config.media_types[i],
                 PrimaryLanguage)

\* The first configured media type with a non-empty list in the primary
\* language, as an index of config.media_types; 0 when there is none.
FirstPrimaryHit ==
    LET hits == { i \in DOMAIN config.media_types : PrimaryResults(i) # << >> }
    IN  IF hits = { } THEN 0
        ELSE CHOOSE i \in hits : \A j \in hits : i <= j

\* The records the API answers with for the i-th configured media type in
\* the primary language: the items that have an id and numbers that parse.
ApiRecords(i) ==
    LET items == primaryApi[config.media_types[i]].results
    IN  { items[k] : k \in { k \in DOMAIN items :
                              items[k].has_id /\ items[k].popularity_parses } }

\* A call of _find_best_match is in progress or has returned.
InResolver == rpc \in { "primary", "backup", "returned" }

\* The searches a call makes when none gives a result.
AllSearches ==
    Len(config.media_types) * (1 + Len(config.backup_languages))

\* C1: when some configured media type has a non-empty result list in the
\* primary language, the resolver returns the top entry of the first such
\* list in configured order, having searched only the media types up to
\* that one, in order, and no backup language.
C1_FirstPrimaryList ==
    (InResolver /\ FirstPrimaryHit # 0) =>
        LET k == FirstPrimaryHit
        IN  /\ rpc # "backup"
            /\ Len(searchLog) <= k
            /\ \A i \in DOMAIN searchLog :
                /\ searchLog[i].language = PrimaryLanguage
                /\ searchLog[i].media_type = config.media_types[i]
            /\ rpc = "returned" =>
                /\ Len(searchLog) = k
                /\ match = << PrimaryResults(k)[1] >>

\* C1 witness: the first of two media types has a list of two records, the
\* second has one too and backup languages are configured, and the call has
\* returned.
C1_Witness ==
    /\ rpc = "returned"
    /\ Len(config.media_types) = 2
    /\ config.backup_languages # << >>
    /\ primaryApi[config.media_types[1]] = RespUnsorted
    /\ primaryApi[config.media_types[2]] = RespLow
    /\ match # << >>

\* C2: when every primary-language search is empty, the backup languages
\* are searched in list order and, within each, the media types in
\* configured order; the call returns at the first non-empty list, with its
\* top entry; and no backup search is made before every primary-language
\* search has come back empty.
C2_BackupOrder ==
    LET n == Len(config.media_types)
    IN  InResolver =>
        /\ \A i \in DOMAIN searchLog :
            /\ i <= n =>
                /\ searchLog[i].language = PrimaryLanguage
                /\ searchLog[i].media_type = config.media_types[i]
            /\ i > n =>
                /\ FirstPrimaryHit = 0
                /\ \A j \in 1..n : searchLog[j].results = << >>
                /\ searchLog[i].language =
                       config.backup_languages[((i - n - 1) \div n) + 1]
                /\ searchLog[i].media_type =
                       config.media_types[((i - n - 1) % n) + 1]
            /\ i < Len(searchLog) => searchLog[i].results = << >>
        /\ (searchLog # << >> /\ searchLog[Len(searchLog)].results # << >>) =>
            /\ rpc = "returned"
            /\ match = << searchLog[Len(searchLog)].results[1] >>
        /\ (rpc = "backup" /\ FirstPrimaryHit = 0) => Len(searchLog) >= n

\* C2 witness: two media types and two backup languages, every search but
\* the last one empty, and the last one's top entry returned.
C2_Witness ==
    /\ rpc = "returned"
    /\ FirstPrimaryHit = 0
    /\ Len(config.media_types) = 2
    /\ Len(config.backup_languages) = 2
    /\ Len(searchLog) = 6
    /\ match # << >>
    /\ match[1].language = config.backup_languages[2]

\* There is a record with a poster among the primary-language answers.
KnownPoster ==
    \E i \in DOMAIN config.media_types :
        \E r \in ApiRecords(i) : r.poster_path \notin { NoPoster, "" }

\* C3 as stated: with a known poster among the API's answers, the returned
\* record has the highest popularity of all records of all configured media
\* types in the primary language.
C3_HighestOfAllTypes ==
    (rpc = "returned" /\ KnownPoster) =>
        /\ match # << >>
        /\ \A i \in DOMAIN config.media_types :
            \A r \in ApiRecords(i) : match[1].popularity >= r.popularity

\* C3 amended: with a known poster among the API's answers, the returned
\* record has the highest popularity of the records of the first configured
\* media type that has any, in the primary language.
C3_HighestOfFirstList ==
    (rpc = "returned" /\ KnownPoster) =>
        /\ match # << >>
        /\ FirstPrimaryHit # 0
        /\ match[1].media_type = config.media_types[FirstPrimaryHit]
        /\ match[1].language = PrimaryLanguage
        /\ \A r \in ApiRecords(FirstPrimaryHit) :
            match[1].popularity >= r.popularity

\* C3 witness: the first list comes unsorted from the API, the second media
\* type has a more popular record, and the call has returned.
C3_Witness ==
    /\ rpc = "returned"
    /\ config.media_types = << "tv", "movie" >>
    /\ primaryApi["tv"] = RespUnsorted
    /\ primaryApi["movie"] = RespTopNoPoster
    /\ match # << >>
    /\ match[1].id = ItemMid.id

\* Every search of the call came back empty.
NothingFound ==
    /\ rpc = "returned"
    /\ \A i \in DOMAIN searchLog : searchLog[i].results = << >>

\* C4 as stated: when no search returns a result, the resolver fails with a
\* NotFoundError.
C4_RaisesNotFound == NothingFound => raised

\* C4 amended: when no search returns a result, the resolver has searched
\* every configured language and media type and returns None; it raises
\* nothing.
C4_ReturnsNone ==
    NothingFound =>
        /\ match = << >>
        /\ ~raised
        /\ Len(searchLog) = AllSearches

\* C4 witness: a call with two media types and two backup languages has
\* returned without a match.
C4_Witness ==
    /\ NothingFound
    /\ Len(config.media_types) = 2
    /\ Len(config.backup_languages) = 2
    /\ match = << >>

(***************************************************************************)
(* Claims about download_single_poster (under Spec).                       *)
(***************************************************************************)
\* C5: the image GET requests of one download_single_poster call never
\* exceed max_retries.
C5_RetryBound == gets <= config.max_retries

\* C5 witness: a call has made max_retries GETs, all failed.
C5_Witness ==
    /\ pc = "next"
    /\ config.max_retries = MaxRetries
    /\ gets = MaxRetries
    /\ ~result.success

\* A step in which an image GET fails.
GetFails == pc = "get" /\ gets' = gets + 1 /\ ~result'.success

\* C6: with max_retries >= 1, a failed GET that is not the last attempt is
\* followed by a wait and another attempt and records nothing; the failure
\* of the last attempt appends the title to failed_titles once, adds one to
\* stats.failed and returns a result with success = false.
C6_RetryThenRecord ==
    /\ [][ (GetFails /\ attempt < config.max_retries) =>
              (pc' = "sleep" /\ stats' = stats) ]_vars
    /\ [][ pc = "sleep" => (pc' = "get" /\ attempt' = attempt + 1) ]_vars
    /\ [][ (GetFails /\ attempt >= config.max_retries) =>
              (pc' = "next" /\ stats' = RecordFailure(stats, Title)) ]_vars
    /\ [] ( (pc = "next" /\ gets >= 1 /\ ~result.success) =>
              /\ gets = config.max_retries
              /\ stats = RecordFailure(before.stats, Title) )

\* C6 witness: with max_retries = 2, two GETs have failed with one wait
\* between them and the title is recorded as failed.
C6_Witness ==
    /\ pc = "next"
    /\ config.max_retries = 2
    /\ gets = 2
    /\ sleeps = 1
    /\ ~result.success
    /\ stats.failed = before.stats.failed + 1

\* C7: a title without a match, or whose match has no poster_path, fails at
\* once: no image GET, no backoff wait, one entry in failed_titles and one
\* added to stats.failed.
C7_ImmediateFailure ==
    (pc \in { "get", "sleep", "next" } /\ searches > 0 /\ NoSuitableMatch) =>
        /\ pc = "next"
        /\ gets = 0
        /\ sleeps = 0
        /\ ~result.success
        /\ stats = RecordFailure(before.stats, Title)

\* C7 witness: the match of the second title has no poster and the title is
\* recorded as failed, with retries configured.
C7_Witness ==
    /\ pc = "next"
    /\ idx = 2
    /\ config.max_retries >= 1
    /\ match # << >>
    /\ match[1].poster_path = NoPoster
    /\ stats.failed_titles # << >>

\* The poster of the title existed when the call began, with overwriting
\* disabled.
ExistedBefore ==
    /\ pc \in { "resolve", "get", "sleep", "next" }
    /\ ~config.overwrite_existing
    /\ before.files[PosterFile(Title)] # "absent"

\* C8: a title whose poster exists while overwrite_existing is false is
\* skipped: no API search, no image GET, the file untouched, one added to
\* stats.skipped, and successful, failed and failed_titles unchanged.
C8_SkipExisting ==
    ExistedBefore =>
        /\ pc = "next"
        /\ searches = 0
        /\ gets = 0
        /\ files = before.files
        /\ stats = [before.stats EXCEPT !.skipped = @ + 1]
        /\ result.success

\* C8 witness: the second title has the file name of the first, which was
\* downloaded in this run, and is skipped.
C8_Witness ==
    /\ ExistedBefore
    /\ idx = 2
    /\ before.files[PosterFile(Title)] = "complete"
    /\ stats.skipped = 1
    /\ stats.successful = 1

\* C11: a sidecar is written only with save_metadata enabled and only in
\* the step that completes the poster of the title and counts it as
\* successful, so never for a skipped or failed title; and the step that
\* completes the poster counts the title as successful and records no
\* failure whether or not the sidecar could be written.
C11_SidecarAfterPoster ==
    /\ [][ metaFiles' # metaFiles =>
              /\ config.save_metadata
              /\ pc = "get"
              /\ files'[PosterFile(Title)] = "complete"
              /\ \A f \in FileNames \ { PosterFile(Title) } :
                    metaFiles'[f] = metaFiles[f]
              /\ result' = [ success |-> TRUE, how |-> "downloaded" ]
              /\ stats' = [stats EXCEPT !.successful = @ + 1] ]_vars
    /\ [][ (pc = "get" /\ result'.how = "downloaded") =>
              /\ files'[PosterFile(Title)] = "complete"
              /\ result'.success
              /\ stats' = [stats EXCEPT !.successful = @ + 1] ]_vars
    /\ [][ (pc = "get" /\ result'.how # "downloaded") =>
              metaFiles' = metaFiles ]_vars

\* C11 witness: the poster of the title is complete, its sidecar is written
\* and the title is counted as successful.
C11_Witness ==
    /\ pc = "next"
    /\ config.save_metadata
    /\ result.how = "downloaded"
    /\ files[PosterFile(Title)] = "complete"
    /\ metaFiles[PosterFile(Title)]
    /\ stats.successful = before.stats.successful + 1

(***************************************************************************)
(* Claims about download_from_list (under Spec).                           *)
(***************************************************************************)
\* C12: the end-of-run steps come after the last title has been processed
\* and in the order summary, report, archive: the summary is reached only
\* from the end of the last title's call, the report is written only after
\* the summary, the archive is made only after the report and only with
\* zip_output true, and the call ends after the archive, or after the
\* report when zip_output is false.
C12_EndOfRunOrder ==
    /\ [][ (pc' = "summary" /\ pc # "summary") =>
              (pc = "next" /\ idx = Len(Titles) /\ result # NoResult) ]_vars
    /\ [][ (pc' = "report" /\ pc # "report") => pc = "summary" ]_vars
    /\ [][ reportFile' # reportFile => pc = "report" ]_vars
    /\ [][ (pc' = "zip" /\ pc # "zip") =>
              (pc = "report" /\ config.zip_output) ]_vars
    /\ [][ zipFile' # zipFile => (pc = "zip" /\ config.zip_output) ]_vars
    /\ [][ (pc' = "done" /\ pc # "done") =>
              (pc = "zip" \/ (pc = "report" /\ ~config.zip_output)) ]_vars
    /\ [] ( pc \in { "summary", "report", "zip", "done" } =>
              idx = Len(Titles) )

\* C12 witness: a run with zip_output true has ended with both the report
\* and the archive written.
C12_Witness ==
    /\ pc = "done"
    /\ config.zip_output
    /\ reportFile # << >>
    /\ zipFile # << >>

\* The titles whose processing has ended in the call in progress.
Processed == IF pc \in { "begin", "resolve", "get", "sleep" }
             THEN idx - 1 ELSE idx

\* C15 (under SpecReuse): every call of download_from_list, the first and
\* any later one on the same object, starts from total = len(titles), zero
\* counters and an empty failed_titles, and from then on its counters
\* count titles of this call only: together they never exceed the number
\* of titles processed so far in this call.
C15_StatsPerRun ==
    /\ [][ (pc \in { "idle", "done" } /\ pc' = "begin") =>
              /\ stats'.total = Len(Titles)
              /\ stats'.successful = 0
              /\ stats'.failed = 0
              /\ stats'.skipped = 0
              /\ stats'.failed_titles = << >> ]_vars
    /\ [] ( pc # "idle" =>
              /\ stats.total = Len(Titles)
              /\ stats.successful + stats.failed + stats.skipped <= Processed
              /\ Len(stats.failed_titles) <= Processed )

\* C15 witness: a later call on the same object has returned without a
\* failure, while the report of an earlier call that had failures is still
\* on disk.
C15_Witness ==
    /\ pc = "done"
    /\ reportFile # << >>
    /\ stats.failed = 0
    /\ stats.failed_titles = << >>
    /\ stats.successful + stats.skipped = Len(Titles)

C19_FallThroughUnreachable == result.how # "fell_through"

\* The sum of the three outcome counters.
Counted(st) == st.successful + st.failed + st.skipped

\* C20: the call of download_single_poster for a title adds exactly one to
\* exactly one of successful, failed and skipped, and when
\* download_from_list has returned the three add up to total, the number of
\* titles.
C20_CountersAddUp ==
    /\ pc = "next" =>
          /\ Counted(stats) = Counted(before.stats) + 1
          /\ stats.successful >= before.stats.successful
          /\ stats.failed >= before.stats.failed
          /\ stats.skipped >= before.stats.skipped
    /\ pc = "done" =>
          /\ stats.total = Len(Titles)
          /\ Counted(stats) = stats.total

\* C21: a title recorded as failed leaves no poster file behind: when no
\* file was at its poster path as the call began, none is there when the
\* call has ended in failure.
C21_NoPartialPoster ==
    ( /\ pc = "next"
      /\ ~result.success
      /\ stats.failed = before.stats.failed + 1
      /\ before.files[PosterFile(Title)] = "absent" ) =>
        files[PosterFile(Title)] = "absent"

\* The place of a title in the list of the run.
IndexOf(title) == CHOOSE j \in DOMAIN Titles : Titles[j] = title

\* C29 (under SpecReuse): at every point of a run failed_titles has as many
\* entries as stats.failed counts, and its entries are titles of this run
\* that ended without a download or a skip: each is a title already taken
\* by the loop, none appears twice, a title being processed is not yet in
\* it, and a title that ended with success is not added.
C29_FailedTitlesMatch ==
    /\ Len(stats.failed_titles) = stats.failed
    /\ pc # "idle" =>
          \A i \in DOMAIN stats.failed_titles :
              /\ \E j \in 1..idx : j \in DOMAIN Titles
                                   /\ Titles[j] = stats.failed_titles[i]
              /\ \A k \in DOMAIN stats.failed_titles :
                    i < k => IndexOf(stats.failed_titles[i])
                               < IndexOf(stats.failed_titles[k])
    /\ pc \in { "begin", "resolve", "get", "sleep" } =>
          \A i \in DOMAIN stats.failed_titles :
              stats.failed_titles[i] # Title
    /\ (pc = "next" /\ result.success) =>
          \A i \in DOMAIN stats.failed_titles :
              stats.failed_titles[i] # Title

\* C29 witness: in a later call on the same object, the first title was
\* downloaded or skipped and the second has failed: failed_titles holds the
\* second title only.
C29_Witness ==
    /\ pc = "next"
    /\ reportFile # << >>
    /\ idx = 2
    /\ ~result.success
    /\ stats.failed = 1
    /\ stats.failed_titles = << Titles[2] >>

\* C24: exactly one backoff wait lies between two consecutive image GETs of
\* a title, and no wait follows the last failed attempt or a success: before
\* a GET there have been as many waits as GETs, and after one, one fewer.
C24_OneWaitBetweenGets ==
    /\ pc = "get" => sleeps = gets
    /\ pc = "sleep" => (gets >= 1 /\ sleeps = gets - 1)
    /\ (pc = "next" /\ gets >= 1) => sleeps = gets - 1
    /\ (pc = "next" /\ gets = 0) => sleeps = 0

\* C24 witness: the second GET of a title succeeded after one wait, and no
\* wait followed it.
C24_Witness ==
    /\ pc = "next"
    /\ result.success
    /\ gets = 2
    /\ sleeps = 1

\* C25: whatever searches and image requests fail, download_from_list
\* goes on to the next title and to the summary and the report: no failure
\* ends the run before them.
C25_FailuresNeverEndRun == pc # "aborted"

(***************************************************************************)
(* The sanitizer applied to bounded inputs, once and then to its own       *)
(* result.                                                                 *)
(***************************************************************************)
\* All strings over InputChars of length at most MaxLen.
InputStrings ==
    UNION { [1..n -> InputChars] : n \in 0..MaxLen }

\* The arguments: any str of the bound, or a value that is not a str.
SanitizeInputs == InputStrings \cup { NonString }

\* The max_length arguments.
MaxLengths == (-1)..MaxLen

\* The downloader is constructed and is not running.
DownloaderIdle ==
    /\ config \in { c \in ResolverConfigs :
                      /\ c.media_types = << "tv", "movie" >>
                      /\ c.backup_languages = << >> }
    /\ pc = "idle"
    /\ idx = 1
    /\ stats = NewStats(0)
    /\ files = [f \in FileNames |-> "absent"]
    /\ metaFiles = [f \in FileNames |-> FALSE]
    /\ reportFile = << >>
    /\ zipFile = << >>
    /\ attempt = 0
    /\ gets = 0
    /\ sleeps = 0
    /\ searches = 0
    /\ before = [ stats |-> stats, files |-> files ]
    /\ result = NoResult
    /\ ResolverIdle

SanInit ==
    /\ sPc = "input"
    /\ sIn \in SanitizeInputs
    /\ sMax \in MaxLengths
    /\ sOut = << >>
    /\ sOut2 = << >>
    /\ DownloaderIdle
    /\ AppIdle

\* name = sanitize_filename(s, max_length)
SanitizeOnce ==
    /\ sPc = "input"
    /\ sOut' = sanitize_filename(sIn, sMax)
    /\ sPc' = "once"
    /\ UNCHANGED << sIn, sMax, sOut2 >>
    /\ UNCHANGED << cfgVars, runVars, fsVars, callVars, resVars, appVars >>

\* sanitize_filename(name, max_length)
SanitizeTwice ==
    /\ sPc = "once"
    /\ sOut2' = sanitize_filename(sOut, sMax)
    /\ sPc' = "twice"
    /\ UNCHANGED << sIn, sMax, sOut >>
    /\ UNCHANGED << cfgVars, runVars, fsVars, callVars, resVars, appVars >>

SanNext == SanitizeOnce \/ SanitizeTwice

SpecSanitize == SanInit /\ [][SanNext]_vars

(***************************************************************************)
(* Claims about sanitize_filename.                                         *)
(***************************************************************************)
\* C9: sanitize_filename is idempotent: applying it to its own result, with
\* the same max_length, gives that result again.
C9_Idempotent == sPc = "twice" => sOut2 = sOut

\* C10: for every input (a non-string, the empty string, whitespace only,
\* illegal characters only, ...) the result is a non-empty string of ASCII
\* letters, digits, underscores and hyphens.
C10_SafeNonEmpty ==
    sPc # "input" =>
        /\ sOut # << >>
        /\ \A i \in DOMAIN sOut : sOut[i] \in SafeChars

\* C10 witness: an input that mixes an unsafe ASCII character, an illegal
\* one and a character outside ASCII has been sanitized to something other
\* than the default name.
C10_Witness ==
    /\ sPc = "once"
    /\ sIn = << "!", "U+00E9", "/" >>
    /\ sOut = << "e" >>

\* C27: for every input and every max_length the result neither begins nor
\* ends with an underscore or a hyphen.
C27_NoEdgeSeparator ==
    sPc # "input" =>
        /\ sOut # << >>
        /\ Head(sOut) \notin { "_", "-" }
        /\ sOut[Len(sOut)] \notin { "_", "-" }

(***************************************************************************)
(* core/api_client.py: _apply_rate_limit inside _make_request, with a      *)
(* clock.  Time is counted in ticks; a tick may pass between any two steps *)
(* of the thread, and time.sleep returns no earlier than asked.            *)
(***************************************************************************)
\* Everything but the API client is at rest.
LimFrame ==
    UNCHANGED << cfgVars, runVars, fsVars, callVars, resVars, sanVars,
                 mainVars, guiVars, loadVars >>

\* TMDBApiClient(config): _last_request_time = 0.0, whatever the monotonic
\* clock shows.
LimiterInit ==
    /\ now \in 0..MaxDelay
    /\ delay \in 0..MaxDelay
    /\ last_request_time = 0
    /\ lPc = "idle"
    /\ wake = 0
    /\ prevSent = << >>
    /\ lastSent = << >>
    /\ RequestIdle
    /\ DownloaderIdle
    /\ SanIdle
    /\ MainIdle
    /\ GuiIdle
    /\ LoadIdle

\* The clock advances.
Tick ==
    /\ now < MaxTime
    /\ now' = now + 1
    /\ UNCHANGED << delay, last_request_time, lPc, wake, prevSent, lastSent >>
    /\ UNCHANGED reqVars
    /\ LimFrame

\* search_media calls _make_request: self._apply_rate_limit() is entered.
MakeRequest ==
    /\ lPc = "idle"
    /\ lPc' = "limit"
    /\ reply' = NoReply
    /\ returned' = NoReturn
    /\ found' = NoneFound
    /\ UNCHANGED << now, delay, last_request_time, wake, prevSent, lastSent >>
    /\ LimFrame

\* time_since_last = time.monotonic() - self._last_request_time, and the
\* test against config.delay: sleep for the rest of the delay, or go on.
ReadClock ==
    /\ lPc = "limit"
    /\ LET time_since_last == now - last_request_time
       IN  IF time_since_last < delay
           THEN /\ wake' = now + (delay - time_since_last)
                /\ lPc' = "sleep"
           ELSE /\ lPc' = "stamp"
                /\ UNCHANGED wake
    /\ UNCHANGED << now, delay, last_request_time, prevSent, lastSent >>
    /\ UNCHANGED reqVars
    /\ LimFrame

\* time.sleep(...) returns.
SleepReturns ==
    /\ lPc = "sleep"
    /\ now >= wake
    /\ lPc' = "stamp"
    /\ UNCHANGED << now, delay, last_request_time, wake, prevSent, lastSent >>
    /\ UNCHANGED reqVars
    /\ LimFrame

\* self._last_request_time = time.monotonic(); _apply_rate_limit returns.
Stamp ==
    /\ lPc = "stamp"
    /\ last_request_time' = now
    /\ lPc' = "send"
    /\ UNCHANGED << now, delay, wake, prevSent, lastSent >>
    /\ UNCHANGED reqVars
    /\ LimFrame

\* self.session.get(...): the connection is there and the request is sent.
Send ==
    /\ lPc = "send"
    /\ prevSent' = lastSent
    /\ lastSent' = << now >>
    /\ lPc' = "wait"
    /\ UNCHANGED << now, delay, last_request_time, wake >>
    /\ UNCHANGED reqVars
    /\ LimFrame

\* session.get(...) ends, and _make_request with it.
Receive ==
    /\ lPc = "wait"
    /\ \E outcome \in HttpOutcomes :
       \E json \in Responses \ { RespFailed } :
          LET body == IF outcome = "ok_json" THEN json ELSE RespFailed
          IN  /\ reply' = [ outcome |-> outcome, body |-> body ]
              /\ returned' \in make_request(outcome, body)
    /\ lPc' = "returned"
    /\ UNCHANGED found
    /\ UNCHANGED << now, delay, last_request_time, wake, prevSent, lastSent >>
    /\ LimFrame

\* search_media after _make_request: an exception passes through it,
\* a value is parsed, filtered and sorted.
SearchReturns ==
    /\ lPc = "returned"
    /\ \E media_type \in MediaType :
          found' = IF returned.raised
                   THEN [ raised |-> TRUE, list |-> << >> ]
                   ELSE [ raised |-> FALSE,
                          list |-> search_media(returned.value, media_type,
                                                PrimaryLanguage) ]
    /\ lPc' = "idle"
    /\ UNCHANGED << reply, returned >>
    /\ UNCHANGED << now, delay, last_request_time, wake, prevSent, lastSent >>
    /\ LimFrame

LimiterNext ==
    \/ Tick
    \/ MakeRequest
    \/ ReadClock
    \/ SleepReturns
    \/ Stamp
    \/ Send
    \/ Receive
    \/ SearchReturns

SpecLimiter == LimiterInit /\ [][LimiterNext]_vars

\* C22: _make_request never raises: whatever the outcome of the HTTP call,
\* it returns the parsed JSON or None.
C22_NeverRaises == ~returned.raised

\* The item has an 'id' and numbers that parse.
ValidItem(item) == item.has_id /\ item.popularity_parses

\* C23: a finished search_media call has not raised; its list is empty when
\* the request failed or the response has no results; otherwise the list
\* holds one record per valid item of the response and no other record,
\* in order of non-increasing popularity.
C23_ValidSorted ==
    (lPc = "idle" /\ reply.outcome # "none") =>
        /\ ~found.raised
        /\ (reply.outcome # "ok_json" \/ reply.body.results = << >>) =>
              found.list = << >>
        /\ \A i \in 1..(Len(found.list) - 1) :
              found.list[i].popularity >= found.list[i + 1].popularity
        /\ LET items == reply.body.results
               valid == { j \in DOMAIN items : ValidItem(items[j]) }
           IN  /\ Len(found.list) = Cardinality(valid)
               /\ \A j \in valid :
                     \E i \in DOMAIN found.list :
                        /\ found.list[i].id = items[j].id
                        /\ found.list[i].poster_path = items[j].poster_path
                        /\ found.list[i].popularity = items[j].popularity

\* C13: of any two consecutive requests of one client, the second is sent
\* at least config.delay after the first was sent.
C13_MinSpacing ==
    prevSent # << >> => lastSent[1] - prevSent[1] >= delay

(***************************************************************************)
(* main.py: the layered configuration and the validation at startup.       *)
(* Python strings are sequences of characters.                             *)
(***************************************************************************)
LowerLetters ==
    { "a", "b", "c", "d", "e", "f", "g", "h", "i", "j", "k", "l", "m",
      "n", "o", "p", "q", "r", "s", "t", "u", "v", "w", "x", "y", "z" }

UpperLetters ==
    { "A", "B", "C", "D", "E", "F", "G", "H", "I", "J", "K", "L", "M",
      "N", "O", "P", "Q", "R", "S", "T", "U", "V", "W", "X", "Y", "Z" }

Digits == { "0", "1", "2", "3", "4", "5", "6", "7", "8", "9" }

\* The {32} of the pattern of validate_api_key.
KeyLength == 32

\* c * n
Repeat(c, n) == [i \in 1..n |-> c]

\* API keys: two well-formed ones, one a character short, one with a
\* newline after 32 good characters.
KeyA == Repeat("a", KeyLength)

KeyB == Repeat("b", KeyLength)

KeyShort == Repeat("a", KeyLength - 1)

KeyNewline == KeyA \o << "\n" >>

\* Language codes: "fr", "en-US", "EN", and "fr" followed by a newline.
LangFr == << "f", "r" >>

LangEnUS == << "e", "n", "-", "U", "S" >>

LangUpper == << "E", "N" >>

LangNewline == << "f", "r", "\n" >>

\* The $ of a pattern given to re.match, after n matched characters: the
\* end of the string, or a newline that is the last character.
AtEnd(s, n) == Len(s) = n \/ (Len(s) = n + 1 /\ s[n + 1] = "\n")

\* re.match(r'^[a-zA-Z0-9]{32}$', api_key), for a str.
validate_api_key(api_key) ==
    /\ Len(api_key) >= KeyLength
    /\ \A i \in 1..KeyLength :
          api_key[i] \in LowerLetters \cup UpperLetters \cup Digits
    /\ AtEnd(api_key, KeyLength)

\* re.match(r'^[a-z]{2}(-[A-Z]{2})?$', language_code), for a str.
is_valid_language_code(language_code) ==
    /\ Len(language_code) >= 2
    /\ language_code[1] \in LowerLetters
    /\ language_code[2] \in LowerLetters
    /\ \/ AtEnd(language_code, 2)
       \/ /\ Len(language_code) >= 5
          /\ language_code[3] = "-"
          /\ language_code[4] \in UpperLetters
          /\ language_code[5] \in UpperLetters
          /\ AtEnd(language_code, 5)

\* DownloadConfig(): api_key = "", language = "en-US".
ClassDefaults == [s \in Settings |-> IF s = "api_key" THEN << >> ELSE LangEnUS]

\* ConfigManager.load_from_file: DownloadConfig() for a missing file, else
\* DownloadConfig(**data), every field not in data at its class default.
load_from_file(file) ==
    IF file = Missing
    THEN ClassDefaults
    ELSE [s \in Settings |->
            IF s \in DOMAIN file[1] THEN file[1][s] ELSE ClassDefaults[s]]

\* DownloadConfig.to_dict: asdict(self), a dict with every field as key
\* (the two str fields followed here are left as they are).
to_dict(cfg) == [s \in Settings |-> cfg[s]]

\* {**d1, **d2}
Merge(d1, d2) ==
    [s \in DOMAIN d1 \cup DOMAIN d2 |->
        IF s \in DOMAIN d2 THEN d2[s] ELSE d1[s]]

\* if value: (None and "" are false)
Truthy(value) == value # Unset /\ value # << >>

\* The files holding a JSON object over the two settings, with values
\* from the given sets.
Files(keys, langs) ==
    { << d >> : d \in
        { d \in UNION { [D -> keys \cup langs] : D \in SUBSET Settings } :
            /\ "api_key" \in DOMAIN d => d["api_key"] \in keys
            /\ "language" \in DOMAIN d => d["language"] \in langs } }

DefaultFiles == { Missing } \cup Files({ KeyA }, { LangFr })

UserFiles ==
    { Missing } \cup Files({ KeyB, KeyShort, KeyNewline },
                           { LangFr, LangUpper, LangNewline })

EnvKeys == { Unset, << >>, KeyA, KeyShort }

ArgLists ==
    { a \in [Settings -> { Unset, KeyB, LangEnUS, LangUpper }] :
        /\ a["api_key"] \in { Unset, KeyB }
        /\ a["language"] \in { Unset, LangEnUS, LangUpper } }

\* Everything but main() is at rest.
MainFrame ==
    UNCHANGED << cfgVars, runVars, fsVars, callVars, resVars, sanVars,
                 limVars, guiVars, loadVars >>

\* main() is entered, after parse_args.
MainInit ==
    /\ defaultFile \in DefaultFiles
    /\ userFile \in UserFiles
    /\ envKey \in EnvKeys
    /\ args \in ArgLists
    /\ dirWritable \in BOOLEAN
    /\ mConfig = << >>
    /\ mPc = "start"
    /\ exitStatus = << >>
    /\ downloaderBuilt = FALSE
    /\ DownloaderIdle
    /\ SanIdle
    /\ LimiterIdle
    /\ GuiIdle
    /\ LoadIdle

\* ConfigManager.load_default_config: a missing default file is first
\* written from DownloadConfig(), then the file is loaded.
load_default_config(file) ==
    load_from_file(IF file = Missing THEN << to_dict(ClassDefaults) >>
                   ELSE file)

\* main, "Layered Configuration Loading": the default config, the user
\* config merged over it when the file exists, TMDB_API_KEY, then the
\* command line.
LoadConfig ==
    /\ mPc = "start"
    /\ LET config0 == load_default_config(defaultFile)
           config1 ==
               IF userFile # Missing
               THEN Merge(to_dict(config0), to_dict(load_from_file(userFile)))
               ELSE config0
           config2 ==
               IF Truthy(envKey)
               THEN [config1 EXCEPT !["api_key"] = envKey]
               ELSE config1
           config3 ==
               IF Truthy(args["api_key"])
               THEN [config2 EXCEPT !["api_key"] = args["api_key"]]
               ELSE config2
           config4 ==
               IF Truthy(args["language"])
               THEN [config3 EXCEPT !["language"] = args["language"]]
               ELSE config3
       IN  mConfig' = config4
    /\ defaultFile' = IF defaultFile = Missing
                      THEN << to_dict(ClassDefaults) >>
                      ELSE defaultFile
    /\ mPc' = "loaded"
    /\ UNCHANGED << userFile, envKey, args, dirWritable, exitStatus,
                    downloaderBuilt >>
    /\ MainFrame

\* main, "Initial Setup & Validation": sys.exit(1) at the first check that
\* fails.
Validate ==
    /\ mPc = "loaded"
    /\ IF \/ ~validate_api_key(mConfig["api_key"])
          \/ ~dirWritable
          \/ ~is_valid_language_code(mConfig["language"])
       THEN /\ exitStatus' = << 1 >>
            /\ mPc' = "exited"
       ELSE /\ mPc' = "valid"
            /\ UNCHANGED exitStatus
    /\ UNCHANGED << defaultFile, userFile, envKey, args, dirWritable,
                    mConfig, downloaderBuilt >>
    /\ MainFrame

\* main, "Gather Titles" and "Run the Downloader": an unreadable or
\* malformed input exits with 1, no titles with 0; else the downloader is
\* constructed and run, and an exception of the run exits with 1.
RunDownloader ==
    /\ mPc = "valid"
    /\ \E input \in { "error", "no_titles", "titles" } :
       \E run_raises \in BOOLEAN :
          CASE input = "error" ->
                  /\ exitStatus' = << 1 >>
                  /\ UNCHANGED downloaderBuilt
            [] input = "no_titles" ->
                  /\ exitStatus' = << 0 >>
                  /\ UNCHANGED downloaderBuilt
            [] input = "titles" ->
                  /\ downloaderBuilt' = TRUE
                  /\ exitStatus' = IF run_raises THEN << 1 >> ELSE << 0 >>
    /\ mPc' = "exited"
    /\ UNCHANGED << defaultFile, userFile, envKey, args, dirWritable,
                    mConfig >>
    /\ MainFrame

MainNext == LoadConfig \/ Validate \/ RunDownloader

SpecMain == MainInit /\ [][MainNext]_vars

\* The API key is a 32-character alphanumeric string.
IsKey(api_key) ==
    /\ Len(api_key) = KeyLength
    /\ \A i \in 1..KeyLength :
          api_key[i] \in LowerLetters \cup UpperLetters \cup Digits

\* The language code has the form xx or xx-XX.
IsLanguageCode(code) ==
    \/ /\ Len(code) = 2
       /\ code[1] \in LowerLetters
       /\ code[2] \in LowerLetters
    \/ /\ Len(code) = 5
       /\ code[1] \in LowerLetters
       /\ code[2] \in LowerLetters
       /\ code[3] = "-"
       /\ code[4] \in UpperLetters
       /\ code[5] \in UpperLetters

\* C14: when the effective configuration fails validation (the API key
\* is not a 32-character alphanumeric string, or the output directory is
\* not writable, or the language code is not of the form xx or xx-XX),
\* main exits with a non-zero status and no downloader is constructed.
C14_InvalidConfigExits ==
    ( /\ mPc \in { "valid", "exited" }
      /\ \/ ~IsKey(mConfig["api_key"])
         \/ ~dirWritable
         \/ ~IsLanguageCode(mConfig["language"]) ) =>
        /\ mPc = "exited"
        /\ exitStatus # << >>
        /\ exitStatus[1] # 0
        /\ ~downloaderBuilt

\* The value of the setting in the highest-priority layer that specifies
\* it: command line, TMDB_API_KEY (API key only), user config file,
\* default config file.
LayeredValue(s) ==
    IF Truthy(args[s]) THEN args[s]
    ELSE IF s = "api_key" /\ Truthy(envKey) THEN envKey
    ELSE IF userFile # Missing /\ s \in DOMAIN userFile[1]
         THEN userFile[1][s]
    ELSE IF defaultFile # Missing /\ s \in DOMAIN defaultFile[1]
         THEN defaultFile[1][s]
    ELSE ClassDefaults[s]

\* C18: every setting of the effective configuration has the value of the
\* highest-priority layer that specifies it.
C18_Layered ==
    mPc \in { "loaded", "valid", "exited" } =>
        \A s \in Settings : mConfig[s] = LayeredValue(s)

(***************************************************************************)
(* poster_downloader_gui.py: start_download, stop_download, the worker     *)
(* thread and download_finished.                                           *)
(***************************************************************************)
\* The threads that start_download may create.
WorkerIds == 1..MaxWorkers

\* A thread that was not started.
NoWorker == [ state |-> "none", done |-> 0 ]

\* Everything but the GUI is at rest.
GuiFrame ==
    UNCHANGED << cfgVars, runVars, fsVars, callVars, resVars, sanVars,
                 limVars, mainVars, loadVars >>

\* PosterDownloaderGUI(): not downloading, "Start Download" enabled, "Stop"
\* disabled.
GuiInit ==
    /\ is_downloading = FALSE
    /\ download_button = "normal"
    /\ stop_button = "disabled"
    /\ workers = [w \in WorkerIds |-> NoWorker]
    /\ afterQueue = 0
    /\ DownloaderIdle
    /\ SanIdle
    /\ LimiterIdle
    /\ MainIdle
    /\ LoadIdle

\* start_download, the command of the enabled "Start Download" button:
\* it returns at the first check of the settings and titles that fails;
\* else it disables the button, enables "Stop", sets is_downloading and
\* starts a daemon thread running download_worker.
start_download ==
    /\ download_button = "normal"
    /\ \E checks_pass \in BOOLEAN :
          IF checks_pass
          THEN /\ \E w \in WorkerIds :
                    /\ workers[w] = NoWorker
                    /\ \A v \in 1..(w - 1) : workers[v] # NoWorker
                    /\ workers' = [workers EXCEPT
                                     ![w] = [ state |-> "running", done |-> 0 ]]
               /\ download_button' = "disabled"
               /\ stop_button' = "normal"
               /\ is_downloading' = TRUE
               /\ UNCHANGED afterQueue
          ELSE UNCHANGED guiVars
    /\ GuiFrame

\* stop_download, the command of the enabled "Stop" button: the flag and
\* the buttons are reset; the worker thread is not told anything.
stop_download ==
    /\ stop_button = "normal"
    /\ is_downloading' = FALSE
    /\ download_button' = "normal"
    /\ stop_button' = "disabled"
    /\ UNCHANGED << workers, afterQueue >>
    /\ GuiFrame

\* download_worker, in its thread: download_from_list processes the next
\* title.  The loop reads neither is_downloading nor any other stop flag.
WorkerStep(w) ==
    /\ workers[w].state = "running"
    /\ workers[w].done < Len(Titles)
    /\ workers' = [workers EXCEPT ![w].done = @ + 1]
    /\ UNCHANGED << is_downloading, download_button, stop_button,
                    afterQueue >>
    /\ GuiFrame

\* download_worker: download_from_list has returned, or an exception was
\* caught; finally: self.root.after(0, self.download_finished).
WorkerEnds(w) ==
    /\ workers[w].state = "running"
    /\ \E raises \in BOOLEAN : raises \/ workers[w].done = Len(Titles)
    /\ workers' = [workers EXCEPT ![w].state = "ended"]
    /\ afterQueue' = afterQueue + 1
    /\ UNCHANGED << is_downloading, download_button, stop_button >>
    /\ GuiFrame

\* download_finished, run by the Tk main loop.
download_finished ==
    /\ afterQueue > 0
    /\ afterQueue' = afterQueue - 1
    /\ is_downloading' = FALSE
    /\ download_button' = "normal"
    /\ stop_button' = "disabled"
    /\ UNCHANGED workers
    /\ GuiFrame

GuiNext ==
    \/ start_download
    \/ stop_download
    \/ \E w \in WorkerIds : WorkerStep(w)
    \/ \E w \in WorkerIds : WorkerEnds(w)
    \/ download_finished

SpecGui == GuiInit /\ [][GuiNext]_vars

\* The worker threads that are processing titles.
Running == { w \in WorkerIds : workers[w].state = "running" }

\* C17: at every moment at most one worker is processing titles, so no
\* download is started while an earlier worker is still running.
C17_OneRunAtATime == Cardinality(Running) <= 1

\* The first worker is running, no run has been started after it, and the
\* downloading flag is down: "Stop" has been pressed during its run.
FirstRunStopped ==
    /\ workers[1].state = "running"
    /\ \A v \in WorkerIds \ { 1 } : workers[v] = NoWorker
    /\ ~is_downloading

\* C26: once "Stop" has been pressed during a run, the worker of that run
\* processes no further title.
C26_StopStopsWorker ==
    [][ FirstRunStopped => workers'[1].done = workers[1].done ]_vars

(***************************************************************************)
(* ConfigManager.load_from_file applied to bounded file contents: the      *)
(* kinds of file, and the JSON values the two enum settings can hold.      *)
(***************************************************************************)
\* class Quality(Enum), class MediaType(Enum): member name -> value.
Quality ==
    [ ORIGINAL |-> "original", HIGH |-> "w500", MEDIUM |-> "w342",
      LOW |-> "w185" ]

MediaTypeMembers == [ TV |-> "tv", MOVIE |-> "movie" ]

\* JSON values as json.load returns them: a str, a list of str, a number,
\* a dict (None and a dict are written out where they are used).  A str is
\* held as the parts that iterating it yields: the strings iterated here are
\* empty or have one character, the others are held whole.
JsonString(parts) == [ type |-> "str", items |-> parts, members |-> << >> ]

JsonArray(strings) == [ type |-> "list", items |-> strings, members |-> << >> ]

JsonNumber == [ type |-> "int", items |-> << >>, members |-> << >> ]

\* Quality(value), MediaType(value): the members with that value; none
\* when the call raises ValueError.
EnumLookup(enum, value) ==
    IF value.type = "str" /\ Len(value.items) = 1
    THEN { name \in DOMAIN enum : enum[name] = value.items[1] }
    ELSE { }

\* The fields of DownloadConfig followed here.
ConfigFields == { "quality", "media_types" }

\* DownloadConfig(): quality ORIGINAL, media_types [TV, MOVIE].
DefaultDownloadConfig ==
    [ quality |-> "ORIGINAL", media_types |-> << "TV", "MOVIE" >> ]

\* The JSON objects of the files: "quality", "media_types" and a key that
\* is no field, each present or not, with the values they can hold.
ConfigObjects ==
    LET QualityValues ==
            { JsonString(<< "original" >>), JsonString(<< "w185" >>),
              JsonString(<< "bad" >>), JsonNumber }
        MediaTypeValues ==
            { JsonArray(<< >>), JsonArray(<< "tv" >>),
              JsonArray(<< "movie", "tv" >>), JsonArray(<< "book" >>),
              JsonArray(<< "tv", "book" >>),
              JsonString(<< >>), JsonString(<< "t" >>), JsonNumber }
        Members ==
            UNION { [ keys -> QualityValues \cup MediaTypeValues ] :
                      keys \in SUBSET (ConfigFields \cup { "colour" }) }
    IN  { [ type |-> "dict", items |-> << >>, members |-> members ] :
            members \in
              { m \in Members :
                  /\ "quality" \in DOMAIN m => m["quality"] \in QualityValues
                  /\ "media_types" \in DOMAIN m =>
                        m["media_types"] \in MediaTypeValues
                  /\ "colour" \in DOMAIN m => m["colour"] = JsonNumber } }

\* The files: missing, not UTF-8, not JSON, JSON that is no object (null, a
\* number, a string, a list), objects.
ConfigFiles ==
    { [ kind |-> kind, data |-> << >> ] :
        kind \in { "missing", "not_utf8", "not_json" } }
    \cup { [ kind |-> "json", data |-> << value >> ] :
             value \in { [ type |-> "NoneType", items |-> << >>,
                           members |-> << >> ],
                         JsonNumber, JsonString(<< "quality" >>),
                         JsonArray(<< "quality" >>) } \cup ConfigObjects }

\* The exception raised inside the try block, "" when there is none:
\* reading and json.load, the two conversions, DownloadConfig(**data).
LoadException(file) ==
    CASE file.kind = "not_utf8" -> "UnicodeDecodeError"
      [] file.kind = "not_json" -> "JSONDecodeError"
      [] OTHER ->
          LET data == file.data[1]
              keys == DOMAIN data.members
          IN  CASE data.type # "dict" -> "TypeError"
                [] /\ "quality" \in keys
                   /\ EnumLookup(Quality, data.members["quality"]) = { }
                      -> "ValueError"
                [] /\ "media_types" \in keys
                   /\ data.members["media_types"].type \notin { "list", "str" }
                      -> "TypeError"
                [] /\ "media_types" \in keys
                   /\ \E i \in DOMAIN data.members["media_types"].items :
                        EnumLookup(MediaTypeMembers,
                            JsonString(<< data.members["media_types"].items[i] >>))
                          = { }
                      -> "ValueError"
                [] ~(keys \subseteq ConfigFields) -> "TypeError"
                [] OTHER -> ""

\* DownloadConfig(**data), data holding enum members.
BuildConfig(data) ==
    [ quality |->
        IF "quality" \in DOMAIN data.members
        THEN CHOOSE name \in EnumLookup(Quality, data.members["quality"]) : TRUE
        ELSE DefaultDownloadConfig.quality,
      media_types |->
        IF "media_types" \in DOMAIN data.members
        THEN [ i \in DOMAIN data.members["media_types"].items |->
                 CHOOSE name \in EnumLookup(MediaTypeMembers,
                     JsonString(<< data.members["media_types"].items[i] >>)) : TRUE ]
        ELSE DefaultDownloadConfig.media_types ]

\* except (json.JSONDecodeError, TypeError, KeyError)
CaughtOnLoad == { "JSONDecodeError", "TypeError", "KeyError" }

Returns(cfg) == [ state |-> "returned", exception |-> "", config |-> << cfg >> ]

\* ConfigManager.load_from_file on every kind of file.
ConfigManager_load_from_file(file) ==
    IF file.kind = "missing"
    THEN Returns(DefaultDownloadConfig)
    ELSE LET exception == LoadException(file)
         IN  IF exception = ""
             THEN Returns(BuildConfig(file.data[1]))
             ELSE IF exception \in CaughtOnLoad
                  THEN Returns(DefaultDownloadConfig)
                  ELSE [ state |-> "raised", exception |-> exception,
                         config |-> << >> ]

LoadInit ==
    /\ cfgFile \in ConfigFiles
    /\ loaded = NotLoaded
    /\ DownloaderIdle
    /\ SanIdle
    /\ LimiterIdle
    /\ MainIdle
    /\ GuiIdle

LoadFile ==
    /\ loaded = NotLoaded
    /\ loaded' = ConfigManager_load_from_file(cfgFile)
    /\ UNCHANGED cfgFile
    /\ UNCHANGED << cfgVars, runVars, fsVars, callVars, resVars, sanVars,
                    limVars, mainVars, guiVars >>

LoadNext == LoadFile

SpecLoad == LoadInit /\ [][LoadNext]_vars

\* C28: load_from_file never raises, whatever the file holds, and the
\* DownloadConfig it returns has enum members as quality and media_types.
C28_LoadNeverRaises ==
    loaded # NotLoaded =>
        /\ loaded.state = "returned"
        /\ loaded.config[1].quality \in DOMAIN Quality
        /\ \A i \in DOMAIN loaded.config[1].media_types :
              loaded.config[1].media_types[i] \in DOMAIN MediaTypeMembers

====
